---- MODULE Spec2Model ----
(***************************************************************************)
(* Model of 2026/script.js: the five page components that are constructed  *)
(* on DOMContentLoaded (LanguageManager, ThemeManager, MobileMenu, ...),   *)
(* the DOM and localStorage state they read and write, and the browser     *)
(* events that run their listeners.                                        *)
(***************************************************************************)
EXTENDS Integers, Sequences, FiniteSets, TLC

VARIABLES
    store,          \* localStorage: [lang, theme], Null when the key is absent
    osDark,         \* the OS reports (prefers-color-scheme: dark)
    hasMatchMedia,  \* window.matchMedia exists
    page,           \* the static markup of the document
    phase,          \* "unloaded" | "loaded" (DOMContentLoaded has fired)
    listeners,      \* the event listeners registered by addEventListener
    currentLang,    \* LanguageManager.currentLang
    currentTheme,   \* ThemeManager.currentTheme
    htmlLang,       \* document.documentElement.lang
    dataTheme,      \* document.documentElement data-theme attribute
    elements,       \* the elements of the document carrying texts
    markers,        \* class 'active' on .lang-fr / .lang-en
    menu,           \* classes and aria-expanded of .nav-menu / .mobile-menu-toggle
    uncaught,       \* an exception escaped a handler
    lastEvent,      \* history: the last event dispatched
    explicitChoice, \* history: a preference was stored at load, or the toggle was clicked
    loadResult,     \* history: what the last page-load resolution produced
    langHistory,    \* history: the states before the last consecutive language clicks
    pageYOffset,    \* window.pageYOffset
    cards,          \* inline style of the card elements
    storeAtLoad,    \* history: localStorage as the last page load found it
    eventInfo       \* history: what the last event carried and what its listeners did

vars == <<store, osDark, hasMatchMedia, page, phase, listeners, currentLang,
          currentTheme, htmlLang, dataTheme, elements, markers, menu,
          uncaught, lastEvent, explicitChoice, loadResult, langHistory,
          pageYOffset, cards, storeAtLoad, eventInfo>>

(***************************************************************************)
(* Values                                                                  *)
(***************************************************************************)
\* JS null / undefined: getItem of an absent key, getAttribute of an absent attribute
Null == "<null>"
\* the outcome of calling an undefined function
TypeError == "<TypeError>"

\* JS truthiness of a string-or-null: null and the empty string are falsy
Truthy(v) == v # Null /\ v # ""

\* number of text elements in the document
NumElements == 2

\* what localStorage may hold for a key when the page loads
StoredLangs == {Null, "", "fr", "en", "de"}
StoredThemes == {Null, "", "light", "dark", "blue"}

\* localStorage.getItem(key)
getItem(st, key) == st[key]

\* the kinds of element the markup may contain
ElementKinds ==
    { [tagName |-> "P", fr |-> "Bonjour", en |-> "Hello",
       textContent |-> "Bonjour", placeholder |-> Null],
      [tagName |-> "INPUT", fr |-> "Nom", en |-> "Name",
       textContent |-> "", placeholder |-> "Nom"],
      [tagName |-> "TEXTAREA", fr |-> "Votre message", en |-> "Your message",
       textContent |-> "", placeholder |-> "Votre message"],
      [tagName |-> "BUTTON", fr |-> "Envoyer", en |-> "Send",
       textContent |-> "Envoyer", placeholder |-> Null],
      [tagName |-> "P", fr |-> "Salut", en |-> "",
       textContent |-> "Salut", placeholder |-> Null],
      [tagName |-> "INPUT", fr |-> "", en |-> "Email",
       textContent |-> "", placeholder |-> "Courriel"],
      [tagName |-> "P", fr |-> "Lieu", en |-> Null,
       textContent |-> "Lieu", placeholder |-> Null] }

(***************************************************************************)
(* LanguageManager                                                         *)
(***************************************************************************)
\* element.getAttribute(`data-${lang}`)
getAttribute(el, lang) ==
    IF lang = "fr" THEN el.fr ELSE IF lang = "en" THEN el.en ELSE Null

\* the selector '[data-fr][data-en]'
HasBothLocales(el) == el.fr # Null /\ el.en # Null

\* the text the user sees: the placeholder of input-like elements, else textContent
VisibleText(el) ==
    IF el.tagName \in {"INPUT", "TEXTAREA"} THEN el.placeholder ELSE el.textContent

\* the body of the forEach callback of setLanguage
setLanguageElement(el, lang) ==
    LET text == getAttribute(el, lang) IN
    IF Truthy(text)
    THEN IF el.tagName = "INPUT" \/ el.tagName = "TEXTAREA"
         THEN [el EXCEPT !.placeholder = text]
         ELSE IF el.tagName = "BUTTON"
              THEN [el EXCEPT !.textContent = text]
              ELSE [el EXCEPT !.textContent = text]
    ELSE el

\* LanguageManager.updateLanguageButton
updateLanguageButton(m, lang, pg) ==
    IF pg.langFr /\ pg.langEn
    THEN IF lang = "fr"
         THEN [fr |-> TRUE, en |-> FALSE]
         ELSE [fr |-> FALSE, en |-> TRUE]
    ELSE m

\* setLanguage without the localStorage.setItem call
setLanguage_notPersisted(lang, els, m, pg) ==
    [ currentLang |-> lang,
      storeLang   |-> getItem(store, "lang"),
      htmlLang    |-> lang,
      elements    |-> [i \in DOMAIN els |->
                         IF HasBothLocales(els[i])
                         THEN setLanguageElement(els[i], lang)
                         ELSE els[i]],
      markers     |-> updateLanguageButton(m, lang, pg) ]

\* LanguageManager.setLanguage: everything it assigns
setLanguage(lang, els, m, pg) ==
    [ currentLang |-> lang,
      storeLang   |-> lang,
      htmlLang    |-> lang,
      elements    |-> [i \in DOMAIN els |->
                         IF HasBothLocales(els[i])
                         THEN setLanguageElement(els[i], lang)
                         ELSE els[i]],
      markers     |-> updateLanguageButton(m, lang, pg) ]

\* LanguageManager constructor: localStorage.getItem('lang') || 'fr'
LanguageManager_initialLang(st) ==
    IF Truthy(getItem(st, "lang")) THEN getItem(st, "lang") ELSE "fr"

\* the click listener of .lang-switch
LangSwitch_newLang(cur) == IF cur = "fr" THEN "en" ELSE "fr"

\* LanguageManager.attachEventListeners
LanguageManager_attachEventListeners(pg) ==
    IF pg.langSwitch # "absent" THEN {"langSwitch.click"} ELSE {}

(***************************************************************************)
(* ThemeManager                                                            *)
(***************************************************************************)
\* getInitialTheme calling window.matchMedia without testing that it exists
getInitialTheme_unguarded(st, mm, dark) ==
    LET savedTheme == getItem(st, "theme") IN
    IF Truthy(savedTheme) THEN savedTheme
    ELSE IF ~mm THEN TypeError
    ELSE IF dark THEN "dark"
    ELSE "light"

\* ThemeManager.getInitialTheme
getInitialTheme(st, mm, dark) ==
    LET savedTheme == getItem(st, "theme") IN
    IF Truthy(savedTheme) THEN savedTheme
    ELSE IF mm /\ dark THEN "dark"
    ELSE "light"

\* setTheme without the localStorage.setItem call
setTheme_notPersisted(theme) ==
    [ currentTheme |-> theme, dataTheme |-> theme,
      storeTheme |-> getItem(store, "theme") ]

\* setTheme without the setAttribute call
setTheme_noAttribute(theme) ==
    [ currentTheme |-> theme, dataTheme |-> dataTheme, storeTheme |-> theme ]

\* ThemeManager.setTheme: everything it assigns
setTheme(theme) ==
    [ currentTheme |-> theme, dataTheme |-> theme, storeTheme |-> theme ]

\* the toggle listener with the branches of its conditional swapped
ThemeToggle_swapped(cur) == IF cur = "light" THEN "light" ELSE "dark"

\* the click listener of .theme-toggle
ThemeToggle_newTheme(cur) == IF cur = "light" THEN "dark" ELSE "light"

\* ThemeManager.attachEventListeners
ThemeManager_attachEventListeners(pg) ==
    IF pg.themeToggle # "absent" THEN {"themeToggle.click"} ELSE {}

\* ThemeManager.watchSystemTheme: the registration
watchSystemTheme(mm) == IF mm THEN {"mediaQuery.change"} ELSE {}

\* e.matches ? 'dark' : 'light'
SystemTheme(matches) == IF matches THEN "dark" ELSE "light"

\* the 'change' listener without its test of the stored preference
mediaQueryChange_unguarded(st, cur, attr, matches) ==
    setTheme(SystemTheme(matches))

\* the 'change' listener of the media query; `matches` is e.matches
mediaQueryChange(st, cur, attr, matches) ==
    IF ~Truthy(getItem(st, "theme"))
    THEN setTheme(SystemTheme(matches))
    ELSE [ currentTheme |-> cur, dataTheme |-> attr, storeTheme |-> getItem(st, "theme") ]

(***************************************************************************)
(* MobileMenu                                                              *)
(***************************************************************************)
\* window.innerWidth > 767
MobileMaxWidth == 767

\* the viewport widths a resize event may report
Widths == {320, 767, 768, 1280}

\* toggleMenu with aria-expanded computed from the state before the toggle
toggleMenu_staleAria(m) ==
    [ menuActive   |-> ~m.menuActive,
      toggleActive |-> ~m.toggleActive,
      ariaExpanded |-> IF m.menuActive THEN "true" ELSE "false" ]

\* MobileMenu.toggleMenu
toggleMenu(m) ==
    LET active == ~m.menuActive IN
    [ menuActive   |-> active,
      toggleActive |-> ~m.toggleActive,
      ariaExpanded |-> IF active THEN "true" ELSE "false" ]

\* MobileMenu.closeMenu
closeMenu(m) ==
    [ menuActive |-> FALSE, toggleActive |-> FALSE, ariaExpanded |-> "false" ]

\* the listeners MobileMenu registers when both elements exist
MenuListeners == {"toggle.click", "document.click", "link.click", "window.resize"}

\* init returning early only when the trigger is absent
MobileMenu_init_toggleOnly(pg) ==
    IF ~pg.toggle THEN {} ELSE MenuListeners

\* MobileMenu.init: the listeners it registers
MobileMenu_init(pg) ==
    IF ~pg.toggle \/ ~pg.menu THEN {}
    ELSE MenuListeners

\* the document-level listener closing the menu wherever the click lands
documentClick_anywhere(ls, m, where) ==
    IF "document.click" \in ls THEN closeMenu(m) ELSE m

\* the document-level click listener; `where` is where the click target lies
documentClick(ls, m, where) ==
    IF "document.click" \in ls /\ where # "toggle" /\ where # "menu"
    THEN closeMenu(m) ELSE m

\* the 'resize' listener with the threshold one pixel higher
windowResize_offByOne(ls, m, innerWidth) ==
    IF "window.resize" \in ls /\ innerWidth > MobileMaxWidth + 1
    THEN closeMenu(m) ELSE m

\* the 'resize' listener of window
windowResize(ls, m, innerWidth) ==
    IF "window.resize" \in ls /\ innerWidth > MobileMaxWidth
    THEN closeMenu(m) ELSE m

(***************************************************************************)
(* SmoothScroll                                                            *)
(***************************************************************************)
\* const headerOffset = 80
HeaderOffset == 80

\* the href values an anchor matched by 'a[href^="#"]' may have
Hrefs == {"#", "#programme", "#missing", "#2026"}

\* hrefs that are no valid selector: document.querySelector throws on them
InvalidSelectors == {"#2026"}

\* the scroll offsets the viewport may be at
Offsets == {0, 250}

\* document.querySelector(href) finds an element
SelectorMatches(href, pg) == href = "#programme" /\ pg.hasTarget

\* target.getBoundingClientRect().top with the viewport scrolled to y
getBoundingClientRectTop(pg, y) == pg.targetTop - y

\* the listener computing the target from the bounding top alone
anchorClick_noScrollOffset(href, pg, y) ==
    IF href = "#"
    THEN [prevented |-> TRUE, requests |-> <<>>, threw |-> FALSE]
    ELSE IF href \in InvalidSelectors
    THEN [prevented |-> FALSE, requests |-> <<>>, threw |-> TRUE]
    ELSE IF SelectorMatches(href, pg)
    THEN [prevented |-> TRUE,
          requests |-> << getBoundingClientRectTop(pg, y) - HeaderOffset >>,
          threw |-> FALSE]
    ELSE [prevented |-> FALSE, requests |-> <<>>, threw |-> FALSE]

\* the listener calling e.preventDefault() before it looks the target up
anchorClick_preventFirst(href, pg, y) ==
    IF href = "#"
    THEN [prevented |-> TRUE, requests |-> <<>>, threw |-> FALSE]
    ELSE IF href \in InvalidSelectors
    THEN [prevented |-> TRUE, requests |-> <<>>, threw |-> TRUE]
    ELSE IF SelectorMatches(href, pg)
    THEN [prevented |-> TRUE,
          requests |-> << getBoundingClientRectTop(pg, y) + y - HeaderOffset >>,
          threw |-> FALSE]
    ELSE [prevented |-> TRUE, requests |-> <<>>, threw |-> FALSE]

\* the click listener of an anchor: whether it called e.preventDefault(), the
\* tops it passed to window.scrollTo, and whether it threw
anchorClick(href, pg, y) ==
    IF href = "#"
    THEN [prevented |-> TRUE, requests |-> <<>>, threw |-> FALSE]
    ELSE IF href \in InvalidSelectors
    THEN [prevented |-> FALSE, requests |-> <<>>, threw |-> TRUE]
    ELSE IF SelectorMatches(href, pg)
    THEN [prevented |-> TRUE,
          requests |-> << getBoundingClientRectTop(pg, y) + y - HeaderOffset >>,
          threw |-> FALSE]
    ELSE [prevented |-> FALSE, requests |-> <<>>, threw |-> FALSE]

\* SmoothScroll.init: the listeners it registers
SmoothScroll_init(pg) == IF pg.anchors # {} THEN {"anchor.click"} ELSE {}

(***************************************************************************)
(* ScrollAnimations                                                        *)
(***************************************************************************)
\* number of card elements in the document
NumCards == 2

\* ScrollAnimations.init: the style it gives every card
ScrollAnimations_setup(cs) ==
    [c \in DOMAIN cs |->
        [cs[c] EXCEPT !.opacity = "0",
                      !.transform = "translateY(20px)",
                      !.transition = "opacity 0.6s ease, transform 0.6s ease"]]

\* ScrollAnimations.init: the observer it creates
ScrollAnimations_init(pg) == {"observer.intersection"}

\* the callback hiding a card again when it is reported as not intersecting
observerCallback_toggle(cs, entries) ==
    [c \in DOMAIN cs |->
        IF c \in DOMAIN entries
        THEN IF entries[c]
             THEN [cs[c] EXCEPT !.opacity = "1", !.transform = "translateY(0)"]
             ELSE [cs[c] EXCEPT !.opacity = "0", !.transform = "translateY(20px)"]
        ELSE cs[c]]

\* the IntersectionObserver callback; entries maps each reported card to
\* its isIntersecting
observerCallback(cs, entries) ==
    [c \in DOMAIN cs |->
        IF c \in DOMAIN entries /\ entries[c]
        THEN [cs[c] EXCEPT !.opacity = "1", !.transform = "translateY(0)"]
        ELSE cs[c]]

(***************************************************************************)
(* The page: loading and unloading                                         *)
(***************************************************************************)
\* loadResult when the last thing the page did was not a page-load resolution
NoResult == [runs |-> 0, theme |-> Null, stored |-> Null]

\* page-load resolutions in a row that are counted
MaxRuns == 2

\* consecutive clicks on the language switch whose starting states are kept
MaxClicks == 2

\* the first n entries of a sequence
FirstN(seq, n) == [i \in 1..(IF Len(seq) < n THEN Len(seq) ELSE n) |-> seq[i]]

\* what a language click may change, as the user and the store see it
LangSnapshot ==
    [ lang   |-> currentLang,
      stored |-> getItem(store, "lang"),
      texts  |-> [i \in DOMAIN elements |-> VisibleText(elements[i])] ]

\* eventInfo of an event that carries nothing: innerWidth of a resize, href of
\* the anchor clicked, whether its default was prevented, the tops of the
\* scrollTo requests, the observer entries, and whether the menu was open before
NoInfo ==
    [ width |-> 0, href |-> Null, prevented |-> FALSE, requests |-> <<>>,
      entries |-> <<>>, wasOpen |-> FALSE ]

\* eventInfo of an event that carries nothing, dispatched in the current state
PlainInfo == [NoInfo EXCEPT !.wasOpen = menu.menuActive]

\* the inline style of a card in the markup
NoStyle == [opacity |-> "", transform |-> "", transition |-> ""]

\* the DOM as the markup describes it, before any script has run
FreshDOM(pg) ==
    /\ htmlLang = pg.htmlLang
    /\ dataTheme = Null
    /\ elements = pg.elements
    /\ markers = pg.markers
    /\ menu = [menuActive |-> FALSE, toggleActive |-> FALSE, ariaExpanded |-> pg.aria]
    /\ pageYOffset = 0
    /\ cards = [c \in 1..pg.cards |-> NoStyle]

\* the state before DOMContentLoaded, for the given sets of inputs
InitFrom(langs, themes, schemes, medias, pages) ==
    /\ store \in [lang : langs, theme : themes]
    /\ osDark \in schemes
    /\ hasMatchMedia \in medias
    /\ page \in pages
    /\ phase = "unloaded"
    /\ listeners = {}
    /\ currentLang = Null
    /\ currentTheme = Null
    /\ FreshDOM(page)
    /\ uncaught = FALSE
    /\ lastEvent = "none"
    /\ explicitChoice = FALSE
    /\ loadResult = NoResult
    /\ langHistory = <<>>
    /\ storeAtLoad = store
    /\ eventInfo = NoInfo

\* the DOMContentLoaded listener: new LanguageManager(); new ThemeManager();
\* new MobileMenu(); new SmoothScroll(); new ScrollAnimations(); an exception
\* thrown by a constructor ends the listener
DOMContentLoaded ==
    /\ phase = "unloaded"
    /\ LET L == setLanguage(LanguageManager_initialLang(store), elements, markers, page)
           theme == getInitialTheme([store EXCEPT !.lang = L.storeLang],
                                    hasMatchMedia, osDark)
           T == setTheme(theme)
       IN  /\ phase' = "loaded"
           /\ currentLang' = L.currentLang
           /\ htmlLang' = L.htmlLang
           /\ elements' = L.elements
           /\ markers' = L.markers
           /\ IF theme = TypeError
              THEN /\ uncaught' = TRUE
                   /\ store' = [store EXCEPT !.lang = L.storeLang]
                   /\ listeners' = LanguageManager_attachEventListeners(page)
                   /\ UNCHANGED <<currentTheme, dataTheme, cards>>
              ELSE /\ uncaught' = FALSE
                   /\ store' = [lang |-> L.storeLang, theme |-> T.storeTheme]
                   /\ currentTheme' = T.currentTheme
                   /\ dataTheme' = T.dataTheme
                   /\ listeners' = LanguageManager_attachEventListeners(page)
                                     \cup ThemeManager_attachEventListeners(page)
                                     \cup watchSystemTheme(hasMatchMedia)
                                     \cup MobileMenu_init(page)
                                     \cup SmoothScroll_init(page)
                                     \cup ScrollAnimations_init(page)
                   /\ cards' = ScrollAnimations_setup(cards)
    /\ lastEvent' = "load"
    /\ explicitChoice' = (getItem(store, "theme") # Null)
    /\ loadResult' = IF loadResult.runs = 0
                     THEN [runs |-> 1, theme |-> dataTheme',
                           stored |-> getItem(store', "theme")]
                     ELSE [loadResult EXCEPT
                             !.runs = IF @ < MaxRuns THEN @ + 1 ELSE @]
    /\ langHistory' = <<>>
    /\ storeAtLoad' = store
    /\ eventInfo' = NoInfo
    /\ UNCHANGED <<osDark, hasMatchMedia, page, menu, pageYOffset>>

\* the page is left: its objects, listeners and DOM are discarded
Unload ==
    /\ phase = "loaded"
    /\ phase' = "unloaded"
    /\ listeners' = {}
    /\ currentLang' = Null
    /\ currentTheme' = Null
    /\ htmlLang' = page.htmlLang
    /\ dataTheme' = Null
    /\ elements' = page.elements
    /\ markers' = page.markers
    /\ menu' = [menuActive |-> FALSE, toggleActive |-> FALSE, ariaExpanded |-> page.aria]
    /\ uncaught' = FALSE
    /\ lastEvent' = "unload"
    /\ explicitChoice' = FALSE
    /\ langHistory' = <<>>
    /\ pageYOffset' = 0
    /\ cards' = [c \in 1..page.cards |-> NoStyle]
    /\ eventInfo' = NoInfo
    /\ UNCHANGED <<store, osDark, hasMatchMedia, page, loadResult, storeAtLoad>>

(***************************************************************************)
(* Events                                                                  *)
(***************************************************************************)
\* a click on .lang-switch: its listener, then the document-level listener
ClickLangSwitch ==
    /\ phase = "loaded"
    /\ "langSwitch.click" \in listeners
    /\ LET L == setLanguage(LangSwitch_newLang(currentLang), elements, markers, page)
       IN  /\ currentLang' = L.currentLang
           /\ store' = [store EXCEPT !.lang = L.storeLang]
           /\ htmlLang' = L.htmlLang
           /\ elements' = L.elements
           /\ markers' = L.markers
    /\ menu' = documentClick(listeners, menu, page.langSwitch)
    /\ lastEvent' = "langClick"
    /\ loadResult' = NoResult
    /\ langHistory' = FirstN(<<LangSnapshot>> \o langHistory, MaxClicks)
    /\ eventInfo' = PlainInfo
    /\ UNCHANGED <<osDark, hasMatchMedia, page, phase, listeners, currentTheme,
                   dataTheme, uncaught, explicitChoice, pageYOffset, cards,
                   storeAtLoad>>

\* a click on .theme-toggle: its listener, then the document-level listener
ClickThemeToggle ==
    /\ phase = "loaded"
    /\ "themeToggle.click" \in listeners
    /\ LET T == setTheme(ThemeToggle_newTheme(currentTheme))
       IN  /\ currentTheme' = T.currentTheme
           /\ dataTheme' = T.dataTheme
           /\ store' = [store EXCEPT !.theme = T.storeTheme]
    /\ menu' = documentClick(listeners, menu, page.themeToggle)
    /\ lastEvent' = "themeClick"
    /\ explicitChoice' = TRUE
    /\ loadResult' = NoResult
    /\ langHistory' = <<>>
    /\ eventInfo' = PlainInfo
    /\ UNCHANGED <<osDark, hasMatchMedia, page, phase, listeners, currentLang,
                   htmlLang, elements, markers, uncaught, pageYOffset, cards,
                   storeAtLoad>>

\* the OS colour scheme changes; a loaded page that watches it is notified
SystemThemeChange ==
    /\ osDark' = ~osDark
    /\ IF phase = "loaded" /\ "mediaQuery.change" \in listeners
       THEN LET T == mediaQueryChange(store, currentTheme, dataTheme, osDark')
            IN  /\ currentTheme' = T.currentTheme
                /\ dataTheme' = T.dataTheme
                /\ store' = [store EXCEPT !.theme = T.storeTheme]
                /\ lastEvent' = "osChange"
                /\ loadResult' = NoResult
                /\ langHistory' = <<>>
                /\ eventInfo' = PlainInfo
       ELSE UNCHANGED <<currentTheme, dataTheme, store, lastEvent, loadResult,
                        langHistory, eventInfo>>
    /\ UNCHANGED <<hasMatchMedia, page, phase, listeners, currentLang, htmlLang,
                   elements, markers, menu, uncaught, explicitChoice, pageYOffset,
                   cards, storeAtLoad>>

\* an event that changes the menu only: `m` is the menu after the listeners
\* ran, `w` the innerWidth a resize reports (0 for a click)
MenuEvent(name, m, w) ==
    /\ phase = "loaded"
    /\ menu' = m
    /\ lastEvent' = name
    /\ loadResult' = NoResult
    /\ langHistory' = <<>>
    /\ eventInfo' = [PlainInfo EXCEPT !.width = w]
    /\ UNCHANGED <<store, osDark, hasMatchMedia, page, phase, listeners,
                   currentLang, currentTheme, htmlLang, dataTheme, elements,
                   markers, uncaught, explicitChoice, pageYOffset, cards,
                   storeAtLoad>>

\* a click on .mobile-menu-toggle: its listener, then the document-level one
ClickTrigger ==
    /\ page.toggle
    /\ MenuEvent("triggerClick",
                 documentClick(listeners,
                               IF "toggle.click" \in listeners
                               THEN toggleMenu(menu) ELSE menu,
                               "toggle"), 0)

\* a click on a link inside .nav-menu: its listener, then the document-level one
ClickMenuLink ==
    /\ page.menu
    /\ MenuEvent("linkClick",
                 documentClick(listeners,
                               IF "link.click" \in listeners
                               THEN closeMenu(menu) ELSE menu,
                               "menu"), 0)

\* a click inside .nav-menu that hits no link
ClickInsideMenu ==
    /\ page.menu
    /\ MenuEvent("menuClick", documentClick(listeners, menu, "menu"), 0)

\* a click outside both .mobile-menu-toggle and .nav-menu
ClickOutside ==
    /\ phase = "loaded"
    /\ MenuEvent("outsideClick", documentClick(listeners, menu, "outside"), 0)

\* the window is resized to innerWidth w
Resize ==
    /\ phase = "loaded"
    /\ \E w \in Widths : MenuEvent("resize", windowResize(listeners, menu, w), w)

\* a click on an anchor whose href starts with '#': the listener of
\* MobileMenu if the anchor is a link of .nav-menu, the listener of
\* SmoothScroll, then the document-level listener
ClickAnchor ==
    /\ phase = "loaded"
    /\ \E a \in page.anchors :
         LET r == IF "anchor.click" \in listeners
                  THEN anchorClick(a.href, page, pageYOffset)
                  ELSE [prevented |-> FALSE, requests |-> <<>>, threw |-> FALSE]
             m == IF a.where = "menu" /\ "link.click" \in listeners
                  THEN closeMenu(menu) ELSE menu
         IN  /\ menu' = documentClick(listeners, m, a.where)
             /\ uncaught' = (uncaught \/ r.threw)
             /\ eventInfo' = [PlainInfo EXCEPT !.href = a.href,
                                               !.prevented = r.prevented,
                                               !.requests = r.requests]
    /\ lastEvent' = "anchorClick"
    /\ loadResult' = NoResult
    /\ langHistory' = <<>>
    /\ UNCHANGED <<store, osDark, hasMatchMedia, page, phase, listeners,
                   currentLang, currentTheme, htmlLang, dataTheme, elements,
                   markers, explicitChoice, pageYOffset, cards, storeAtLoad>>

\* the viewport scrolls, by the user or by a smooth scroll under way, within
\* what the height of the document allows
Scroll ==
    /\ phase = "loaded"
    /\ pageYOffset' \in {y \in Offsets : y <= page.maxScroll} \ {pageYOffset}
    /\ lastEvent' = "scroll"
    /\ loadResult' = NoResult
    /\ langHistory' = <<>>
    /\ eventInfo' = PlainInfo
    /\ UNCHANGED <<store, osDark, hasMatchMedia, page, phase, listeners,
                   currentLang, currentTheme, htmlLang, dataTheme, elements,
                   markers, menu, uncaught, explicitChoice, cards, storeAtLoad>>

\* the observer reports some cards, each as intersecting or not
Intersect ==
    /\ phase = "loaded"
    /\ "observer.intersection" \in listeners
    /\ \E S \in (SUBSET DOMAIN cards) \ {{}} :
         \E entries \in [S -> BOOLEAN] :
            /\ cards' = observerCallback(cards, entries)
            /\ eventInfo' = [PlainInfo EXCEPT !.entries = entries]
    /\ lastEvent' = "intersection"
    /\ loadResult' = NoResult
    /\ langHistory' = <<>>
    /\ UNCHANGED <<store, osDark, hasMatchMedia, page, phase, listeners,
                   currentLang, currentTheme, htmlLang, dataTheme, elements,
                   markers, menu, uncaught, explicitChoice, pageYOffset,
                   storeAtLoad>>

Next ==
    \/ DOMContentLoaded
    \/ Unload
    \/ ClickLangSwitch
    \/ ClickThemeToggle
    \/ SystemThemeChange
    \/ ClickTrigger
    \/ ClickMenuLink
    \/ ClickInsideMenu
    \/ ClickOutside
    \/ Resize
    \/ ClickAnchor
    \/ Scroll
    \/ Intersect

\* a plain text element
PlainElement == CHOOSE k \in ElementKinds : k.tagName = "P" /\ k.en = "Hello"

\* the markup every component finds its elements in
BasePage ==
    [ langSwitch |-> "outside", themeToggle |-> "outside",
      langFr |-> TRUE, langEn |-> TRUE, toggle |-> TRUE, menu |-> TRUE,
      htmlLang |-> "fr", aria |-> "false", cards |-> 1,
      anchors |-> { [href |-> "#programme", where |-> "menu"],
                    [href |-> "#", where |-> "outside"] },
      hasTarget |-> TRUE, targetTop |-> 600, maxScroll |-> 250,
      markers |-> [fr |-> TRUE, en |-> FALSE],
      elements |-> [i \in 1..NumElements |-> PlainElement] ]

\* the same markup without anchors and cards, and too short to scroll
BarePage == [BasePage EXCEPT !.cards = 0, !.anchors = {}, !.maxScroll = 0]

\* markups that vary what LanguageManager reads
LangPages ==
    { [BarePage EXCEPT !.elements = e] : e \in [1..NumElements -> ElementKinds] }
    \cup { BasePage }
    \cup { [BarePage EXCEPT !.langFr = f, !.langEn = e,
                            !.markers = [fr |-> f /\ a, en |-> e /\ b]] :
             f \in BOOLEAN, e \in BOOLEAN, a \in BOOLEAN, b \in BOOLEAN }
    \cup { [BarePage EXCEPT !.langSwitch = p] : p \in {"absent", "menu"} }

\* markups that vary what ThemeManager reads
ThemePages ==
    { [BarePage EXCEPT !.themeToggle = p] : p \in {"absent", "menu", "outside"} }
    \cup { BasePage }

\* markups that vary what MobileMenu reads
MenuPages ==
    { [BarePage EXCEPT !.toggle = t, !.menu = m, !.aria = a,
                       !.langSwitch = l, !.themeToggle = l] :
        t \in BOOLEAN, m \in BOOLEAN, a \in {Null, "false"},
        l \in {"menu", "outside"} }
    \cup { [BasePage EXCEPT !.toggle = t, !.menu = m] :
             t \in BOOLEAN, m \in BOOLEAN }

\* markups that vary what SmoothScroll reads
ScrollPages ==
    { [BasePage EXCEPT !.anchors = [href : Hrefs, where : {"menu", "outside"}],
                       !.hasTarget = h, !.targetTop = t] :
        h \in BOOLEAN, t \in {40, 600} }

\* markups that vary what ScrollAnimations reads
AnimPages == { [BasePage EXCEPT !.cards = n] : n \in 1..NumCards }

InitLang == InitFrom(StoredLangs, {Null}, {FALSE}, {TRUE}, LangPages)
InitTheme == InitFrom({Null}, StoredThemes, BOOLEAN, BOOLEAN, ThemePages)
InitMenu == InitFrom({Null}, {Null}, {FALSE}, {TRUE}, MenuPages)
InitScroll == InitFrom({Null}, {Null}, {FALSE}, {TRUE}, ScrollPages)
InitAnim == InitFrom({Null}, {Null}, {FALSE}, {TRUE}, AnimPages)
InitPrefs == InitFrom(StoredLangs, StoredThemes, BOOLEAN, {TRUE}, {BasePage})

Init == InitLang \/ InitTheme \/ InitMenu \/ InitScroll \/ InitAnim \/ InitPrefs

Spec == Init /\ [][Next]_vars
SpecLang == InitLang /\ [][Next]_vars
SpecTheme == InitTheme /\ [][Next]_vars
SpecMenu == InitMenu /\ [][Next]_vars
SpecScroll == InitScroll /\ [][Next]_vars
SpecAnim == InitAnim /\ [][Next]_vars
SpecPrefs == InitPrefs /\ [][Next]_vars

(***************************************************************************)
(* Properties of ThemeManager                                              *)
(***************************************************************************)
\* a SystemThemeChange step that runs the 'change' listener
Notified == SystemThemeChange /\ phase = "loaded" /\ "mediaQuery.change" \in listeners

\* C1: an OS colour-scheme notification delivered while a theme preference is
\* stored changes neither the applied theme, nor currentTheme, nor the stored
\* value; with 'light' stored, a change to dark does not make the page dark.
C1_StoredPreferenceWins ==
    [][ (Notified /\ getItem(store, "theme") # Null)
        => /\ dataTheme' = dataTheme
           /\ currentTheme' = currentTheme
           /\ getItem(store', "theme") = getItem(store, "theme")
           /\ (getItem(store, "theme") = "light" => dataTheme' # "dark") ]_vars

\* C1 witness: right after a notification of a change to dark the page is
\* still light, the stored 'light' having been kept
C1_Witness ==
    /\ lastEvent = "osChange"
    /\ osDark
    /\ getItem(store, "theme") = "light"
    /\ dataTheme = "light"

\* C2: with no preference stored at load and no click on the toggle, the
\* applied theme follows the OS after every colour-scheme notification.
C2_FollowsSystem ==
    (lastEvent = "osChange" /\ ~explicitChoice) => dataTheme = SystemTheme(osDark)

\* C3 as stated: a stored preference (any value of the key) is applied at
\* load; else dark if matchMedia exists and reports dark; else light; and
\* no exception surfaces.
C3_InitialResolution ==
    [][ DOMContentLoaded
        => /\ ~uncaught'
           /\ dataTheme' = IF getItem(store, "theme") # Null
                           THEN getItem(store, "theme")
                           ELSE IF hasMatchMedia /\ osDark THEN "dark" ELSE "light" ]_vars

\* C3 amended: a stored non-empty preference is applied at load; otherwise
\* (key absent or empty) dark if matchMedia exists and reports dark, else
\* light; and no exception surfaces.
C3_InitialResolutionNonEmpty ==
    [][ DOMContentLoaded
        => /\ ~uncaught'
           /\ dataTheme' = IF getItem(store, "theme") \notin {Null, ""}
                           THEN getItem(store, "theme")
                           ELSE IF hasMatchMedia /\ osDark THEN "dark" ELSE "light" ]_vars

\* C3 witness: loaded without matchMedia and without a stored preference,
\* the page is light while the OS is dark
C3_Witness ==
    /\ lastEvent = "load"
    /\ ~hasMatchMedia
    /\ osDark
    /\ dataTheme = "light"
    /\ ~uncaught

\* C4: a click on the theme toggle turns light into dark and dark into
\* light, never yields another value, and leaves the stored preference
\* equal to the applied theme.
C4_ToggleFlipsAndPersists ==
    [][ ClickThemeToggle
        => /\ dataTheme' \in {"light", "dark"}
           /\ (dataTheme = "light" => dataTheme' = "dark")
           /\ (dataTheme = "dark" => dataTheme' = "light")
           /\ getItem(store', "theme") = dataTheme' ]_vars

\* C4 witness: a click has made the page dark and stored it
C4_Witness ==
    /\ lastEvent = "themeClick"
    /\ dataTheme = "dark"
    /\ getItem(store, "theme") = "dark"

\* C5: a second page-load resolution in a row applies the theme the first
\* applied and leaves the stored value as the first left it.
C5_ResolutionIdempotent ==
    (lastEvent = "load" /\ loadResult.runs >= 2)
        => /\ dataTheme = loadResult.theme
           /\ getItem(store, "theme") = loadResult.stored

\* C5 witness: the page has been loaded twice in a row, the OS scheme having
\* changed since the first resolution picked it up
C5_Witness ==
    /\ lastEvent = "load"
    /\ loadResult.runs >= 2
    /\ loadResult.theme = "light"
    /\ osDark
    /\ hasMatchMedia

(***************************************************************************)
(* Properties of LanguageManager                                           *)
(***************************************************************************)
\* C6 as stated: once the language is set to en (or back to fr), every
\* element with both data-fr and data-en shows its value for that language,
\* an empty value included.
C6_TextsFollowLanguage ==
    (phase = "loaded" /\ currentLang \in {"fr", "en"})
        => \A i \in DOMAIN elements :
             HasBothLocales(elements[i])
                 => VisibleText(elements[i]) = getAttribute(elements[i], currentLang)

\* C7: on a loaded page the active language is fr or en, and the value the
\* component has written under 'lang' is fr or en, whatever the store held
\* when the page loaded.
C7_LanguageKnown ==
    phase = "loaded"
        => /\ currentLang \in {"fr", "en"}
           /\ getItem(store, "lang") \in {"fr", "en"}

\* C8: a click on the language switch turns fr into en and en into fr and
\* stores the new language; after two clicks in a row the language, the
\* stored value and every element's text are what they were before the first.
C8_ClickFlipsAndTwoRestore ==
    (lastEvent = "langClick" /\ Len(langHistory) >= 1)
        => /\ (langHistory[1].lang = "fr" => currentLang = "en")
           /\ (langHistory[1].lang = "en" => currentLang = "fr")
           /\ getItem(store, "lang") = currentLang
           /\ (Len(langHistory) >= 2 => LangSnapshot = langHistory[2])

\* C9: after page load and after every language click, exactly one of
\* .lang-fr and .lang-en (both in the page) is 'active', and it is the
\* marker of the current language.
C9_OneActiveMarker ==
    (phase = "loaded" /\ page.langFr /\ page.langEn)
        => /\ markers.fr # markers.en
           /\ (markers.fr => currentLang = "fr")
           /\ (markers.en => currentLang = "en")

(***************************************************************************)
(* Properties of MobileMenu                                                *)
(***************************************************************************)
\* the menu is open: 'active' on panel and trigger, aria-expanded "true"
MenuOpen(m) == m.menuActive /\ m.toggleActive /\ m.ariaExpanded = "true"

\* the menu is closed: no 'active' class, aria-expanded "false"
MenuClosed(m) == ~m.menuActive /\ ~m.toggleActive /\ m.ariaExpanded = "false"

\* C10: a fully dispatched click on the trigger opens a closed menu and
\* closes an open one.
C10_TriggerClickToggles ==
    [][ (ClickTrigger /\ "toggle.click" \in listeners)
        => /\ (~menu.menuActive => MenuOpen(menu'))
           /\ (menu.menuActive => MenuClosed(menu')) ]_vars

\* C10 witness: a click on the trigger has left the menu open
C10_Witness ==
    /\ lastEvent = "triggerClick"
    /\ MenuOpen(menu)

\* C11: whatever the menu was before, a click on a link inside the panel, a
\* click outside both trigger and panel, and a resize to a width of at least
\* 768 each leave the menu closed.
C11_ClosingEvents ==
    [][ ( /\ MenuListeners \subseteq listeners
          /\ \/ ClickMenuLink
             \/ ClickOutside
             \/ ClickAnchor
             \/ (Resize /\ eventInfo'.width >= 768) )
        => MenuClosed(menu') ]_vars

\* C11 witness: a resize to exactly 768 has closed a menu that was open
C11_Witness ==
    /\ lastEvent = "resize"
    /\ eventInfo.width = 768
    /\ eventInfo.wasOpen
    /\ MenuClosed(menu)

\* C15: when the trigger or the panel is absent MobileMenu registers no
\* listener, no click or resize changes a class or aria-expanded, and no
\* exception is raised.
C15_InertWithoutElements ==
    (phase = "loaded" /\ (~page.toggle \/ ~page.menu))
    => /\ listeners \cap MenuListeners = {}
       /\ menu = [menuActive |-> FALSE, toggleActive |-> FALSE,
                  ariaExpanded |-> page.aria]
       /\ ~uncaught

\* C15 witness: the trigger exists without the panel and a click on it has
\* changed nothing
C15_Witness ==
    /\ phase = "loaded"
    /\ page.toggle /\ ~page.menu
    /\ lastEvent = "triggerClick"
    /\ ~menu.toggleActive
    /\ menu.ariaExpanded = page.aria

\* C18: the 'active' class of the panel, the 'active' class of the trigger
\* and aria-expanded = "true" always agree.
C18_MarkersAgree ==
    /\ menu.menuActive <=> menu.toggleActive
    /\ menu.menuActive <=> (menu.ariaExpanded = "true")

\* C18 witness: a click inside the open panel has left all three markers set
C18_Witness ==
    /\ lastEvent = "menuClick"
    /\ menu.menuActive /\ menu.toggleActive /\ menu.ariaExpanded = "true"

\* C16: once page-load initialization has run the 'theme' key is present,
\* right after the load it equals the applied theme, also when nothing was
\* stored before, and it stays present after toggle clicks and OS change
\* notifications.
C16_ThemePersistedOnLoad ==
    phase = "loaded"
    => /\ getItem(store, "theme") # Null
       /\ lastEvent = "load" => getItem(store, "theme") = dataTheme

\* C16 witness: a load with nothing stored resolved to the OS theme and
\* stored it
C16_Witness ==
    /\ lastEvent = "load"
    /\ getItem(storeAtLoad, "theme") = Null
    /\ dataTheme = "dark"
    /\ getItem(store, "theme") = "dark"

C19_ThemeCopiesAgree ==
    phase = "loaded"
    => /\ currentTheme = dataTheme
       /\ dataTheme = getItem(store, "theme")

\* C19 witness: a toggle click switched a dark page to light in all three
\* copies
C19_Witness ==
    /\ lastEvent = "themeClick"
    /\ osDark
    /\ getItem(storeAtLoad, "theme") = Null
    /\ currentTheme = "light"
    /\ dataTheme = "light"
    /\ getItem(store, "theme") = "light"

\* C12: a click on an anchor whose href matches an element suppresses default
\* navigation and issues exactly one scroll request whose top is P + S - 80,
\* P the bounding top of the element and S the scroll offset at the click.
C12_ScrollTarget ==
    [][ ( /\ ClickAnchor
          /\ "anchor.click" \in listeners
          /\ SelectorMatches(eventInfo'.href, page) )
        => LET P == getBoundingClientRectTop(page, pageYOffset)
               S == pageYOffset
           IN  /\ eventInfo'.prevented
               /\ eventInfo'.requests = << P + S - 80 >> ]_vars

\* C12 witness: with the page scrolled to 250 a click on the anchor of an
\* element at 600 has requested a scroll to 520
C12_Witness ==
    /\ lastEvent = "anchorClick"
    /\ eventInfo.href = "#programme"
    /\ pageYOffset = 250
    /\ page.targetTop = 600
    /\ eventInfo.prevented
    /\ eventInfo.requests = << 520 >>

\* C13: a click on an anchor with href '#' suppresses default navigation,
\* issues no scroll request and raises no exception; a click on an anchor
\* whose href matches no element issues no scroll request and does not
\* suppress default navigation.
C13_InertAnchors ==
    [][ (ClickAnchor /\ "anchor.click" \in listeners)
        => /\ eventInfo'.href = "#"
               => /\ eventInfo'.prevented
                  /\ eventInfo'.requests = <<>>
                  /\ uncaught' = uncaught
           /\ (eventInfo'.href # "#" /\ ~SelectorMatches(eventInfo'.href, page))
               => /\ ~eventInfo'.prevented
                  /\ eventInfo'.requests = <<>> ]_vars

\* C13 witness: a click on an anchor whose href matches no element
C13_Witness ==
    /\ lastEvent = "anchorClick"
    /\ eventInfo.href = "#missing"
    /\ ~eventInfo.prevented
    /\ eventInfo.requests = <<>>
    /\ ~uncaught

\* a card as init leaves it: opacity 0, 20px lower
Hidden(style) == style.opacity = "0" /\ style.transform = "translateY(20px)"

\* a card as the callback reveals it: opacity 1, no offset
Visible(style) == style.opacity = "1" /\ style.transform = "translateY(0)"

\* C14: every card is invisible after setup, becomes visible only by an
\* intersection event that reports it as intersecting, which does make it
\* visible, and once visible stays visible whatever events follow.
C14_OneShotReveal ==
    [][ /\ DOMContentLoaded => \A c \in DOMAIN cards' : Hidden(cards'[c])
        /\ (phase = "loaded" /\ phase' = "loaded")
            => \A c \in DOMAIN cards :
                 /\ Hidden(cards'[c]) \/ Visible(cards'[c])
                 /\ Visible(cards[c]) => Visible(cards'[c])
                 /\ ( /\ Intersect
                      /\ c \in DOMAIN eventInfo'.entries
                      /\ eventInfo'.entries[c] ) => Visible(cards'[c])
                 /\ (Hidden(cards[c]) /\ ~Hidden(cards'[c]))
                    => /\ lastEvent' = "intersection"
                       /\ c \in DOMAIN eventInfo'.entries
                       /\ eventInfo'.entries[c] ]_vars

\* C14 witness: a visible card was reported as not intersecting and is
\* still visible, while another card is still hidden
C14_Witness ==
    /\ lastEvent = "intersection"
    /\ \E c \in DOMAIN cards :
         /\ c \in DOMAIN eventInfo.entries
         /\ ~eventInfo.entries[c]
         /\ Visible(cards[c])
    /\ \E c \in DOMAIN cards : Hidden(cards[c])

====
